---- MODULE Spec2Model ----
(***************************************************************************)
(* A model of generate_subscription_tracker.py: parse_transactions (the    *)
(* CSV scan, grouping, filtering and billing prediction), get_vendor_url,  *)
(* generate_html (the items and their urgency class), main, and the script *)
(* of the generated page (load of saved progress, toggleDone, sortItems,   *)
(* updateProgress).                                                        *)
(*                                                                         *)
(* Text is modelled by TLA+ strings (sequences of characters): Len, SubSeq *)
(* and \o act on them character by character.  A datetime is an integer    *)
(* number of ticks since 0001-01-01 00:00 minus one day (ordinal 1 is      *)
(* tick TicksPerDay); Python's resolution is the microsecond, the model's  *)
(* is 1/TicksPerDay of a day.  A float that the program obtains by a       *)
(* division is the exact fraction [num, den].                               *)
(***************************************************************************)
EXTENDS Integers, Sequences, FiniteSets, TLC

\* Resolution of datetime and timedelta values: ticks per day.
TicksPerDay == 2

\* Longest input file, in data rows, of the specification Spec.
MaxRows == 3

\* Latest value of TODAY, in ticks after the midnight that starts March 1, 2024.
MaxNowTicks == 2

\* Longest input file, in data rows, of the specification SpecOrder.
MaxOrderRows == 7

\* Most fragments a merchant name given to get_vendor_url is made of.
MaxFragments == 3

\* Number of items of the generated page.
NumItems == 3

\* The most data rows of a file read by a whole run of main.
MaxDueRows == 3

(***************************************************************************)
(* Strings                                                                 *)
(***************************************************************************)
Char(s, i) == SubSeq(s, i, i)

IsSpace(c) == c = " "

RECURSIVE LStrip(_)
LStrip(s) ==
    IF Len(s) > 0 /\ IsSpace(Char(s, 1)) THEN LStrip(SubSeq(s, 2, Len(s))) ELSE s

RECURSIVE RStrip(_)
RStrip(s) ==
    IF Len(s) > 0 /\ IsSpace(Char(s, Len(s))) THEN RStrip(SubSeq(s, 1, Len(s) - 1)) ELSE s

\* str.strip()
Strip(s) == RStrip(LStrip(s))

\* p in s
Contains(s, p) ==
    \E i \in 0..(Len(s) - Len(p)) : SubSeq(s, i + 1, i + Len(p)) = p

\* s.replace(old, new) for a one-character old
RECURSIVE Replace(_, _, _)
Replace(s, old, new) ==
    IF Len(s) = 0 THEN ""
    ELSE (IF Char(s, 1) = old THEN new ELSE Char(s, 1))
             \o Replace(SubSeq(s, 2, Len(s)), old, new)

IsDigit(c) == c \in {"0", "1", "2", "3", "4", "5", "6", "7", "8", "9"}

DigitVal(c) ==
    CASE c = "0" -> 0 [] c = "1" -> 1 [] c = "2" -> 2 [] c = "3" -> 3
      [] c = "4" -> 4 [] c = "5" -> 5 [] c = "6" -> 6 [] c = "7" -> 7
      [] c = "8" -> 8 [] c = "9" -> 9

AllDigits(s) == \A i \in 1..Len(s) : IsDigit(Char(s, i))

\* The number a non-empty string of digits denotes.
RECURSIVE DigitsVal(_)
DigitsVal(s) ==
    IF Len(s) = 0 THEN 0
    ELSE 10 * DigitsVal(SubSeq(s, 1, Len(s) - 1)) + DigitVal(Char(s, Len(s)))

\* Position of the first occurrence of the character c in s, 0 when absent.
RECURSIVE IndexOf(_, _, _)
IndexOf(s, c, from) ==
    IF from > Len(s) THEN 0
    ELSE IF Char(s, from) = c THEN from
    ELSE IndexOf(s, c, from + 1)

(***************************************************************************)
(* datetime                                                                *)
(***************************************************************************)
IsLeap(y) == y % 4 = 0 /\ (y % 100 # 0 \/ y % 400 = 0)

DaysInMonth(y, m) ==
    CASE m \in {1, 3, 5, 7, 8, 10, 12} -> 31
      [] m \in {4, 6, 9, 11} -> 30
      [] m = 2 -> IF IsLeap(y) THEN 29 ELSE 28

RECURSIVE DaysBeforeMonth(_, _)
DaysBeforeMonth(y, m) ==
    IF m = 1 THEN 0 ELSE DaysBeforeMonth(y, m - 1) + DaysInMonth(y, m - 1)

DaysBeforeYear(y) ==
    (y - 1) * 365 + ((y - 1) \div 4) - ((y - 1) \div 100) + ((y - 1) \div 400)

\* datetime(y, m, d) at midnight, in ticks.
DateTime(y, m, d) ==
    (DaysBeforeYear(y) + DaysBeforeMonth(y, m) + d) * TicksPerDay

\* datetime.strptime(text, '%m/%d/%Y'): [ok |-> TRUE, value |-> ticks] or
\* [ok |-> FALSE] where strptime raises ValueError.
strptime(text) ==
    LET s1 == IndexOf(text, "/", 1)
        s2 == IF s1 = 0 THEN 0 ELSE IndexOf(text, "/", s1 + 1)
        mm == SubSeq(text, 1, s1 - 1)
        dd == SubSeq(text, s1 + 1, s2 - 1)
        yy == SubSeq(text, s2 + 1, Len(text))
        shape == /\ s1 # 0 /\ s2 # 0
                 /\ Len(mm) \in {1, 2} /\ AllDigits(mm)
                 /\ Len(dd) \in {1, 2} /\ AllDigits(dd)
                 /\ Len(yy) = 4 /\ AllDigits(yy)
        m == DigitsVal(mm)
        d == DigitsVal(dd)
        y == DigitsVal(yy)
    IN  IF shape /\ m \in 1..12 /\ d \in 1..31 /\ y >= 1 /\ d <= DaysInMonth(y, m)
        THEN [ok |-> TRUE, value |-> DateTime(y, m, d)]
        ELSE [ok |-> FALSE, value |-> 0]

\* (b - a).days
Days(a, b) == (b - a) \div TicksPerDay

\* timedelta(days=num/den): the nearest tick, a tie going to the even one.
timedelta(num, den) ==
    LET n == num * TicksPerDay
        q == n \div den
        r == n % den
    IN  IF 2 * r < den THEN q
        ELSE IF 2 * r > den THEN q + 1
        ELSE IF q % 2 = 0 THEN q ELSE q + 1

(***************************************************************************)
(* float                                                                   *)
(***************************************************************************)
\* float(text) for text made of a sign, digits, a point and other characters
\* that are no part of a number (no exponent, inf, nan or underscore): for the
\* shape [+-]digits[.digits] with at most two decimals [ok |-> TRUE,
\* value |-> hundredths], and [ok |-> FALSE] where float raises ValueError.
float(text) ==
    LET signed == Len(text) > 0 /\ Char(text, 1) \in {"-", "+"}
        body == IF signed THEN SubSeq(text, 2, Len(text)) ELSE text
        dot == IndexOf(body, ".", 1)
        int == IF dot = 0 THEN body ELSE SubSeq(body, 1, dot - 1)
        frac == IF dot = 0 THEN "" ELSE SubSeq(body, dot + 1, Len(body))
        shape == /\ AllDigits(int) /\ AllDigits(frac)
                 /\ Len(int) + Len(frac) > 0
                 /\ Len(frac) <= 2
        cents == 100 * DigitsVal(int)
                   + (IF Len(frac) = 1 THEN 10 * DigitsVal(frac) ELSE DigitsVal(frac))
    IN  IF shape
        THEN [ok |-> TRUE,
              value |-> IF signed /\ Char(text, 1) = "-" THEN 0 - cents ELSE cents]
        ELSE [ok |-> FALSE, value |-> 0]

(***************************************************************************)
(* State                                                                   *)
(***************************************************************************)
VARIABLES
    TODAY,          \* module-level TODAY = datetime.now(), in ticks
    rows,           \* the data rows the csv reader has yielded so far
    pc,             \* position of the run: in parse_transactions, or "done", "written"
    merchant_data,  \* the defaultdict, as the sequence of its entries in insertion order
    idx,            \* position of `for merchant, data in merchant_data.items()`
    avg_amount,     \* locals of the body of that loop
    avg_interval,
    next_billing,
    recurring,      \* the list parse_transactions builds and returns
    html            \* the .item elements generate_html has written, in document order

parse_vars ==
    <<TODAY, rows, pc, merchant_data, idx, avg_amount, avg_interval, next_billing, recurring, html>>

VARIABLES
    merchant,       \* the argument of a call of get_vendor_url
    url             \* what the call returned, "" while it has not returned

url_vars == <<merchant, url>>

VARIABLES
    items,          \* the .item elements of the generated page, in document order
    localStorage,   \* the browser's storage: key |-> stored text
    sort_select,    \* the value of the select #sort-select
    done_count,     \* the text of #done-count
    last_event      \* what happened last to the page: "load", "toggle" or "sort"

page_vars == <<items, localStorage, sort_select, done_count, last_event>>

(***************************************************************************)
(* Input rows.  A row is what csv.DictReader yields for one line: ncols is  *)
(* the number of fields of the line, and a column beyond ncols reads None.  *)
(* The columns are Account Type, Account Number, Transaction Date,          *)
(* Description 1, CAD$, USD$.                                               *)
(***************************************************************************)
Row(n, date, desc, cad, usd) ==
    [ncols |-> n, date |-> date, desc |-> desc, cad |-> cad, usd |-> usd]

DateIsNone(row) == row.ncols < 3
DescIsNone(row) == row.ncols < 4
CadIsNone(row) == row.ncols < 5
UsdIsNone(row) == row.ncols < 6

(***************************************************************************)
(* parse_transactions: the scan of one row                                  *)
(***************************************************************************)
\* row['Description 1'].strip() on a row without that field raises
\* AttributeError outside the try block.
RowRaises(row) == DescIsNone(row)

\* the `continue` of the non-subscription entries
NonSubscription(desc) ==
    \/ desc = ""
    \/ Contains(desc, "PAYMENT - THANK YOU")
    \/ Contains(desc, "PURCHASE INTEREST")
    \/ Contains(desc, "OVERLIMIT FEE")

\* The try block up to `if amount:`: the text of the amount, or the failure
\* of the row (an exception caught by the bare except).
AmountText(row) ==
    IF DateIsNone(row) \/ ~strptime(row.date).ok \/ CadIsNone(row)
    THEN [ok |-> FALSE, text |-> ""]
    ELSE IF Strip(row.cad) # "" THEN [ok |-> TRUE, text |-> Strip(row.cad)]
    ELSE IF UsdIsNone(row) THEN [ok |-> FALSE, text |-> ""]
    ELSE [ok |-> TRUE, text |-> Strip(row.usd)]

NewEntry(desc) == [merchant |-> desc, dates |-> <<>>, amounts |-> <<>>, charges |-> <<>>]

Position(md, desc) ==
    IF \E i \in 1..Len(md) : md[i].merchant = desc
    THEN CHOOSE i \in 1..Len(md) : md[i].merchant = desc
    ELSE 0

\* merchant_data[desc]: the defaultdict creates the entry on first access.
Touch(md, desc) == IF Position(md, desc) = 0 THEN Append(md, NewEntry(desc)) ELSE md

\* merchant_data[desc]['dates'].append(date)
AppendDate(md, desc, date) ==
    LET t == Touch(md, desc)
        i == Position(t, desc)
    IN  [t EXCEPT ![i].dates = Append(@, date)]

\* merchant_data[desc]['amounts'].append(float(amount)) and
\* merchant_data[desc]['charges'].append({'date': date, 'amount': float(amount)})
AppendAmount(md, desc, date, amount) ==
    LET i == Position(md, desc)
    IN  [md EXCEPT ![i].amounts = Append(@, amount),
                   ![i].charges = Append(@, [date |-> date, amount |-> amount])]

\* The body of `for row in reader` for a row that does not raise: the
\* dictionary after it.  The date is appended before float(amount) is
\* evaluated, so a ValueError of float leaves the date in the entry.
ScanRow(md, row) ==
    LET desc == Strip(row.desc)
        a == AmountText(row)
        date == strptime(row.date).value
    IN  IF NonSubscription(desc) THEN md
        ELSE IF ~a.ok THEN md
        ELSE IF a.text = "" THEN md
        ELSE IF ~float(a.text).ok THEN AppendDate(md, desc, date)
        ELSE AppendAmount(AppendDate(md, desc, date), desc, date, float(a.text).value)

(***************************************************************************)
(* parse_transactions: the filter for recurring subscriptions               *)
(***************************************************************************)
\* Minimum number of dates of a recurring merchant.
MinOccurrences == 3

\* Interval used when there are fewer than two dates.
DefaultInterval == 30

RECURSIVE InsertAsc(_, _)
InsertAsc(s, x) ==
    IF Len(s) = 0 THEN <<x>>
    ELSE IF s[Len(s)] <= x THEN Append(s, x)
    ELSE Append(InsertAsc(SubSeq(s, 1, Len(s) - 1), x), s[Len(s)])

\* sorted(data['dates'])
RECURSIVE sorted(_)
sorted(s) ==
    IF Len(s) = 0 THEN <<>> ELSE InsertAsc(sorted(SubSeq(s, 1, Len(s) - 1)), s[Len(s)])

\* A slip of IsCharge: a zero amount taken for a charge.
IsChargeOrZero(a) == a <= 0

IsCharge(a) == a < 0

Abs(a) == IF a < 0 THEN 0 - a ELSE a

\* A slip of ChargeAmounts: the filter `if a < 0` left out.
AllAmounts(amts) == [i \in 1..Len(amts) |-> Abs(amts[i])]

\* [abs(a) for a in data['amounts'] if a < 0]
RECURSIVE ChargeAmounts(_)
ChargeAmounts(amts) ==
    IF Len(amts) = 0 THEN <<>>
    ELSE LET rest == ChargeAmounts(SubSeq(amts, 1, Len(amts) - 1))
             a == amts[Len(amts)]
         IN  IF IsCharge(a) THEN Append(rest, Abs(a)) ELSE rest

RECURSIVE Sum(_)
Sum(s) == IF Len(s) = 0 THEN 0 ELSE Sum(SubSeq(s, 1, Len(s) - 1)) + s[Len(s)]

\* sum(amounts) / len(amounts)
AvgAmount(amounts) == [num |-> Sum(amounts), den |-> Len(amounts)]

\* [(dates_sorted[i] - dates_sorted[i-1]).days for i in range(1, len(dates_sorted))]
Intervals(dates_sorted) ==
    [i \in 1..(Len(dates_sorted) - 1) |-> Days(dates_sorted[i], dates_sorted[i + 1])]

\* sum(intervals) / len(intervals) if intervals else 30
AvgInterval(intervals) ==
    IF Len(intervals) > 0
    THEN [num |-> Sum(intervals), den |-> Len(intervals)]
    ELSE [num |-> DefaultInterval, den |-> 1]

\* sorted(..., key=lambda x: x['date'], reverse=True): stable, so charges of
\* one date keep their input order.
RECURSIVE InsertByDateDesc(_, _)
InsertByDateDesc(s, c) ==
    IF Len(s) = 0 THEN <<c>>
    ELSE IF s[Len(s)].date >= c.date THEN Append(s, c)
    ELSE Append(InsertByDateDesc(SubSeq(s, 1, Len(s) - 1), c), s[Len(s)])

RECURSIVE ChargesSorted(_)
ChargesSorted(charges) ==
    IF Len(charges) = 0 THEN <<>>
    ELSE LET rest == ChargesSorted(SubSeq(charges, 1, Len(charges) - 1))
             c == charges[Len(charges)]
         IN  IF IsCharge(c.amount) THEN InsertByDateDesc(rest, c) ELSE rest

\* A slip of InsertByCountDesc: equal counts end up in reverse order.
RECURSIVE InsertByCountReversed(_, _)
InsertByCountReversed(s, x) ==
    IF Len(s) = 0 THEN <<x>>
    ELSE IF s[Len(s)].count > x.count THEN Append(s, x)
    ELSE Append(InsertByCountReversed(SubSeq(s, 1, Len(s) - 1), x), s[Len(s)])

\* recurring.sort(key=lambda x: x['count'], reverse=True): stable.
RECURSIVE InsertByCountDesc(_, _)
InsertByCountDesc(s, x) ==
    IF Len(s) = 0 THEN <<x>>
    ELSE IF s[Len(s)].count >= x.count THEN Append(s, x)
    ELSE Append(InsertByCountDesc(SubSeq(s, 1, Len(s) - 1), x), s[Len(s)])

RECURSIVE SortByCount(_)
SortByCount(s) ==
    IF Len(s) = 0 THEN <<>>
    ELSE InsertByCountDesc(SortByCount(SubSeq(s, 1, Len(s) - 1)), s[Len(s)])

\* `if len(data['dates']) >= 3:` and, inside it, `if amounts:`
Qualifies(data) ==
    /\ Len(data.dates) >= MinOccurrences
    /\ Len(ChargeAmounts(data.amounts)) > 0

NoFraction == [num |-> 0, den |-> 1]

(***************************************************************************)
(* get_vendor_url                                                          *)
(***************************************************************************)
urls ==
       "Amazon Web Services www.amazon.ca" :>
          "https://console.aws.amazon.com/billing/home#/paymentmethods"
    @@ "TRELLO.COM* ATLASSIAN ATLASSIAN.COM" :>
          "https://trello.com/login"
    @@ "1PASSWORD TORONTO" :>
          "https://my.1password.com/billing"
    @@ "ZOOM.COM 888-799-9666 ZOOM.US" :>
          "https://zoom.us/billing"
    @@ "MIDAS ALARM & SECURITY LT BURNABY" :>
          "https://www.midasalarm.com/contact"
    @@ "ADVANCED PARKING AUTO 877-909-6199" :>
          "https://www.advancedparking.ca/contact"
    @@ "GREENVIEW DATA INC. 888-576-4949" :>
          "https://www.greenviewdata.com/clientarea.php"
    @@ "CLOUD LINUX, INC CLN.CLOUDLINU" :>
          "https://cln.cloudlinux.com/console/billing"
    @@ "Amazon.ca Prime Member amazon.ca/pri" :>
          "https://www.amazon.ca/mc/yourpayments"
    @@ "SMTP2GO, I* SMTP2GO EM SMTP2GO.COM" :>
          "https://www.smtp2go.com/settings/billing/"
    @@ "4TE*ACCOUNTEDGE 973-586-2200" :>
          "https://www.accountedge.com/my-account"
    @@ "OPSSHIELD LLP KOCHI" :>
          "https://opsshield.com/login"
    @@ "CLOUDFLARE CLOUDFLARE.CO" :>
          "https://dash.cloudflare.com/billing"
    @@ "NINJAONE, LLC NINJAONE.COM" :>
          "https://app.ninjarmm.com/#/settings/billing"
    @@ "GOOGLE *ADS8657284425 855-222-8603" :>
          "https://ads.google.com/aw/billing"
    @@ "GOOGLE*ADS8657284425 CC GOOGLE.COM" :>
          "https://ads.google.com/aw/billing"
    @@ "OPENAI *CHATGPT SUBSCR OPENAI.COM" :>
          "https://platform.openai.com/settings/organization/billing/overview"
    @@ "GOOGLE *GSUITE_neocode 855-222-8603" :>
          "https://admin.google.com/ac/billing"
    @@ "GOOGLE *Workspace_neoc 855-222-8603" :>
          "https://admin.google.com/ac/billing"
    @@ "HUBSTAFF.COM HUBSTAFF.COM" :>
          "https://app.hubstaff.com/organizations/billing"
    @@ "BACKBLAZE INC BACKBLAZE.COM" :>
          "https://secure.backblaze.com/billing.htm"
    @@ "ONEPROVIDER 5142860253" :>
          "https://oneprovider.com/portal/clientarea.php"
    @@ "LINODE . AKAMAI 6093807100" :>
          "https://cloud.linode.com/account/billing"
    @@ "FILEMAKER 800-325-2747" :>
          "https://www.claris.com/account/"
    @@ "INBOX ZERO INC. GETINBOXZERO." :>
          "https://www.getinboxzero.com/settings"
    @@ "SCRAPFLY SCRAPFLY.IO" :>
          "https://scrapfly.io/dashboard/billing"
    @@ "IDIGITAL INTERNET INC VANCOUVER" :>
          "https://www.idigital.ca/clientarea.php"
    @@ "NEW DEMOCRATIC PARTY 604-430-8600" :>
          "https://www.ndp.ca/donate"
    @@ "WALMART.CA MISSISSAUGA" :>
          "https://www.walmart.ca/account"
    @@ "WALMART DELIVERY PASS REN MISSISSAUGA" :>
          "https://www.walmart.ca/account"
    @@ "STARBUCKS 8007827282 800-782-7282" :>
          "https://www.starbucks.ca/account"
    @@ "CS *STARBUCKS GC 877-850-1977" :>
          "https://www.starbucks.ca/account"
    @@ "PADDLE.NET* DECODO LONDON" :>
          "https://vendors.paddle.com/subscriptions"
    @@ "PADDLE.NET* SMARTPROXY LONDON" :>
          "https://vendors.paddle.com/subscriptions"
    @@ "PADDLE.NET* SUPERDUPER LONDON" :>
          "https://vendors.paddle.com/subscriptions"
    @@ "MEGA LIMITED AUCKLAND" :>
          "https://mega.nz/fm/account/plan"
    @@ "SYNC 18553677962" :>
          "https://cp.sync.com/billing"
    @@ "SYNC.COM* SYNC.COM TORONTO" :>
          "https://cp.sync.com/billing"
    @@ "TASKRABBIT* RECEIPT VANCOUVER" :>
          "https://www.taskrabbit.com/account/payment"
    @@ "OPENVPN SUBSCRIPTION OPENVPN.NET" :>
          "https://myaccount.openvpn.com/"
    @@ "Microsoft*Microsoft 365 F Mississauga" :>
          "https://account.microsoft.com/services/"
    @@ "ELEVENLABS.IO ELEVENLABS.IO" :>
          "https://elevenlabs.io/app/settings/billing"
    @@ "ANTHROPIC ANTHROPIC.COM" :>
          "https://console.anthropic.com/settings/billing"
    @@ "PROTON AG* PROTON AG GENEVA" :>
          "https://account.proton.me/u/0/mail/dashboard"
    @@ "SSLSTORE SAINT PETERSB" :>
          "https://www.thesslstore.com/client/login.php"
    @@ "CHEAPSSLWEB.COM SIGNMYCODE.CO" :>
          "https://cheapsslweb.com/client/login.php"
    @@ "CERTERALLC* CHEAPSSLWE SIGNMYCODE.CO" :>
          "https://cheapsslweb.com/client/login.php"

\* A slip of get_vendor_url: the Audible rule tried before the CPANEL rule.
AudibleFirst(m) ==
    IF m \in DOMAIN urls THEN urls[m]
    ELSE IF Contains(m, "Audible") THEN "https://www.audible.ca/account/payments"
    ELSE IF Contains(m, "CPANEL") THEN "https://store.cpanel.net/view-invoice"
    ELSE IF Contains(m, "GODADDY") THEN "https://account.godaddy.com/billing"
    ELSE IF Contains(m, "FS *") THEN "https://fsprg.com/account"
    ELSE "https://www.google.com/search?q=" \o Replace(m, " ", "+")
             \o "+billing+payment+method"

get_vendor_url(m) ==
    IF m \in DOMAIN urls THEN urls[m]
    ELSE IF Contains(m, "CPANEL") THEN "https://store.cpanel.net/view-invoice"
    ELSE IF Contains(m, "Audible") THEN "https://www.audible.ca/account/payments"
    ELSE IF Contains(m, "GODADDY") THEN "https://account.godaddy.com/billing"
    ELSE IF Contains(m, "FS *") THEN "https://fsprg.com/account"
    ELSE "https://www.google.com/search?q=" \o Replace(m, " ", "+")
             \o "+billing+payment+method"

(***************************************************************************)
(* Inputs                                                                  *)
(***************************************************************************)
\* Pieces of merchant names: the four patterns, two of them in another
\* case, a space, a letter and two keys of the table.
Fragments ==
    {"CPANEL", "Audible", "GODADDY", "FS *", "cpanel", "FS*", " ", "x",
     "SYNC 18553677962", "CS *STARBUCKS GC 877-850-1977"}

\* The strings made of at most n fragments.
RECURSIVE Concatenations(_)
Concatenations(n) ==
    IF n = 0 THEN {""}
    ELSE LET shorter == Concatenations(n - 1)
         IN  shorter \cup {a \o f : a \in shorter, f \in Fragments}

Merchants == Concatenations(MaxFragments)

\* The values datetime.now() may return at program start: from the midnight
\* that starts March 1, 2024 on, tick by tick.
NowValues == {DateTime(2024, 3, 1) + k : k \in 0..MaxNowTicks}

\* Rows of merchant A whose date and amount parse.
ValidRows ==
    { Row(6, "2/28/2024", "A", "-1", ""),
      Row(6, "2/29/2024", "A", "-3.50", ""),
      Row(6, "3/1/2024", "A", "-1", ""),
      Row(6, "2/29/2024", "A", "2", ""),
      Row(6, "3/1/2024", " A ", " ", " 0"),
      Row(6, "2/28/2024", "A", "", "-3.50") }

\* Rows of merchant A that fail in the try block or carry no amount.
MalformedRows ==
    { Row(6, "2/30/2024", "A", "-1", ""),
      Row(6, "2/29/2024", "A", "x", ""),
      Row(6, "3/1/2024", "A", "", ""),
      Row(4, "2/28/2024", "A", "", ""),
      Row(5, "2/28/2024", "A", "", "") }

\* Rows the scan skips, and a line too short to have a description.
OtherRows ==
    { Row(6, "2/28/2024", "  ", "-1", ""),
      Row(6, "2/28/2024", "PAYMENT - THANK YOU", "100", ""),
      Row(6, "2/28/2024", "PURCHASE INTEREST 3", "-1", ""),
      Row(6, "2/28/2024", "AN OVERLIMIT FEE", "-1", ""),
      Row(3, "2/28/2024", "", "", ""),
      Row(6, "2/28/2024", "B", "-1", "") }

Rows == ValidRows \cup MalformedRows \cup OtherRows

\* Rows of two merchants for the order of the result: a row of each that
\* parses, a row of A whose amount does not, a row of A whose date does not.
OrderRows ==
    { Row(6, "3/1/2024", "A", "-1", ""),
      Row(6, "3/1/2024", "B", "-1", ""),
      Row(6, "2/28/2024", "A", "x", ""),
      Row(6, "2/30/2024", "A", "-1", "") }

(***************************************************************************)
(* parse_transactions                                                      *)
(***************************************************************************)
\* No call of get_vendor_url is under way.
UrlIdle == merchant = "" /\ url = ""

\* No page is open.
PageIdle ==
    /\ items = <<>>
    /\ localStorage = <<>>
    /\ sort_select = ""
    /\ done_count = 0
    /\ last_event = ""

ParseInit ==
    /\ TODAY \in NowValues
    /\ rows = <<>>
    /\ pc = "read"
    /\ merchant_data = <<>>
    /\ idx = 0
    /\ avg_amount = NoFraction
    /\ avg_interval = NoFraction
    /\ next_billing = 0
    /\ recurring = <<>>
    /\ html = <<>>

\* One iteration of `for row in reader`, on any row of `options`.
ReadRow(options, maxRows) ==
    /\ pc = "read"
    /\ Len(rows) < maxRows
    /\ \E row \in options :
          /\ rows' = Append(rows, row)
          /\ IF RowRaises(row)
             THEN pc' = "raised" /\ UNCHANGED merchant_data
             ELSE pc' = pc /\ merchant_data' = ScanRow(merchant_data, row)
    /\ UNCHANGED <<url_vars, page_vars, html, TODAY, idx, avg_amount, avg_interval, next_billing, recurring>>

\* The reader is exhausted: the `with` block ends and the filter loop starts.
EndOfFile ==
    /\ pc = "read"
    /\ pc' = "filter"
    /\ idx' = 1
    /\ UNCHANGED <<url_vars, page_vars, html, TODAY, rows, merchant_data, avg_amount, avg_interval, next_billing, recurring>>

\* One iteration of `for merchant, data in merchant_data.items()` up to the
\* while loop, or all of it for a merchant that does not pass the two ifs.
FilterMerchant ==
    /\ pc = "filter"
    /\ idx <= Len(merchant_data)
    /\ LET data == merchant_data[idx]
           dates_sorted == sorted(data.dates)
           last_date == dates_sorted[Len(dates_sorted)]
           interval == AvgInterval(Intervals(dates_sorted))
       IN  IF Qualifies(data)
           THEN /\ avg_amount' = AvgAmount(ChargeAmounts(data.amounts))
                /\ avg_interval' = interval
                /\ next_billing' = last_date + timedelta(interval.num, interval.den)
                /\ pc' = "while"
                /\ UNCHANGED idx
           ELSE /\ idx' = idx + 1
                /\ UNCHANGED <<pc, avg_amount, avg_interval, next_billing>>
    /\ UNCHANGED <<url_vars, page_vars, html, TODAY, rows, merchant_data, recurring>>

\* `while next_billing < TODAY:` is true: control enters the body.
WhileTest ==
    /\ pc = "while"
    /\ next_billing < TODAY
    /\ pc' = "body"
    /\ UNCHANGED <<url_vars, page_vars, html, TODAY, rows, merchant_data, idx, avg_amount, avg_interval, next_billing, recurring>>

\* `next_billing += timedelta(days=avg_interval)`, and back to the test.
WhileStep ==
    /\ pc = "body"
    /\ next_billing' = next_billing + timedelta(avg_interval.num, avg_interval.den)
    /\ pc' = "while"
    /\ UNCHANGED <<url_vars, page_vars, html, TODAY, rows, merchant_data, idx, avg_amount, avg_interval, recurring>>

\* The loop has ended: recurring.append({...}) and the next merchant.
AppendSummary ==
    /\ pc = "while"
    /\ ~(next_billing < TODAY)
    /\ LET data == merchant_data[idx]
       IN  recurring' = Append(recurring,
               [merchant |-> data.merchant,
                count |-> Len(sorted(data.dates)),
                avg_amount |-> avg_amount,
                next_billing |-> next_billing,
                interval |-> avg_interval,
                charges |-> ChargesSorted(data.charges)])
    /\ idx' = idx + 1
    /\ pc' = "filter"
    /\ avg_amount' = NoFraction
    /\ avg_interval' = NoFraction
    /\ next_billing' = 0
    /\ UNCHANGED <<url_vars, page_vars, html, TODAY, rows, merchant_data>>

\* recurring.sort(key=lambda x: x['count'], reverse=True); return recurring
SortReturn ==
    /\ pc = "filter"
    /\ idx > Len(merchant_data)
    /\ recurring' = SortByCount(recurring)
    /\ pc' = "done"
    /\ UNCHANGED <<url_vars, page_vars, html, TODAY, rows, merchant_data, idx, avg_amount, avg_interval, next_billing>>

vars == <<parse_vars, url_vars, page_vars>>

Init == ParseInit /\ UrlIdle /\ PageIdle

Next ==
    \/ ReadRow(Rows, MaxRows)
    \/ EndOfFile
    \/ FilterMerchant
    \/ WhileTest
    \/ WhileStep
    \/ AppendSummary
    \/ SortReturn

Spec == Init /\ [][Next]_vars

\* parse_transactions on files of up to MaxOrderRows rows of OrderRows.
NextOrder ==
    \/ ReadRow(OrderRows, MaxOrderRows)
    \/ EndOfFile
    \/ FilterMerchant
    \/ WhileTest
    \/ WhileStep
    \/ AppendSummary
    \/ SortReturn

SpecOrder == Init /\ [][NextOrder]_vars

(***************************************************************************)
(* generate_html and main                                                  *)
(***************************************************************************)
\* `subscriptions[:30]`: the page shows the first 30 summaries.
Top == 30

\* `item['charges'][:10]`: an item lists its 10 most recent charges.
ShownCharges == 10

\* s[:n]
Take(s, n) == SubSeq(s, 1, IF Len(s) < n THEN Len(s) ELSE n)

\* int(x) for a fraction x that is not negative.
int(x) == x.num \div x.den

\* The urgency class with the bounds 7 and 14 taken as inclusive.
urgency_class_inclusive(days_until) ==
    IF days_until <= 7 THEN "urgent"
    ELSE IF days_until <= 14 THEN "soon"
    ELSE "ok"

\* if days_until < 7: 'urgent' / elif days_until < 14: 'soon' / else: 'ok'
urgency_class(days_until) ==
    IF days_until < 7 THEN "urgent"
    ELSE IF days_until < 14 THEN "soon"
    ELSE "ok"

\* The .item element of the summary at index i: its data-id, the merchant,
\* the vendor link, the day of the next billing date (the date formats leave
\* out the time of day), the interval shown, the class and the charges shown.
Item(i, item) ==
    [dataId |-> i,
     merchant |-> item.merchant,
     url |-> get_vendor_url(item.merchant),
     next_date |-> item.next_billing \div TicksPerDay,
     interval_days |-> int(item.interval),
     urgency_class |-> urgency_class(Days(TODAY, item.next_billing)),
     avg_amount |-> item.avg_amount,
     count |-> item.count,
     charges |-> Take(item.charges, ShownCharges)]

\* for i, item in enumerate(subscriptions[:30])
generate_html(subscriptions) ==
    LET shown == Take(subscriptions, Top)
    IN  [k \in 1..Len(shown) |-> Item(k - 1, shown[k])]

\* main: parse_transactions has returned; generate_html(subscriptions,
\* output_html) writes the page and the program ends.
GenerateHtml ==
    /\ pc = "done"
    /\ html' = generate_html(recurring)
    /\ pc' = "written"
    /\ UNCHANGED <<url_vars, page_vars, TODAY, rows, merchant_data, idx, avg_amount, avg_interval, next_billing, recurring>>

\* Charges of merchant A by date: a day apart, a week apart, 8, 15 and 16
\* days apart, on the last day of February and on March 1.
DueRows ==
    { Row(6, "1/30/2024", "A", "-1", ""),
      Row(6, "2/13/2024", "A", "-1", ""),
      Row(6, "2/14/2024", "A", "-1", ""),
      Row(6, "2/21/2024", "A", "-1", ""),
      Row(6, "2/29/2024", "A", "-1", ""),
      Row(6, "3/1/2024", "A", "-1", "") }

\* A run of main on a file of up to MaxDueRows rows of DueRows.
NextMain ==
    \/ ReadRow(DueRows, MaxDueRows)
    \/ EndOfFile
    \/ FilterMerchant
    \/ WhileTest
    \/ WhileStep
    \/ AppendSummary
    \/ SortReturn
    \/ GenerateHtml

SpecMain == Init /\ [][NextMain]_vars

\* The same runs, with the interpreter going on through the while loop: its
\* test, its body and the statement after it are each taken when they are the
\* next step of the program.
FairMain ==
    /\ Init
    /\ [][NextMain]_vars
    /\ WF_vars(WhileTest)
    /\ WF_vars(WhileStep)
    /\ WF_vars(AppendSummary)

(***************************************************************************)
(* Calls of get_vendor_url                                                 *)
(***************************************************************************)
\* parse_transactions is not running.
ParseIdle ==
    /\ TODAY = 0
    /\ rows = <<>>
    /\ pc = "idle"
    /\ merchant_data = <<>>
    /\ idx = 0
    /\ avg_amount = NoFraction
    /\ avg_interval = NoFraction
    /\ next_billing = 0
    /\ recurring = <<>>
    /\ html = <<>>

UrlInit ==
    /\ ParseIdle
    /\ PageIdle
    /\ merchant \in Merchants
    /\ url = ""

\* get_vendor_url(merchant) returns.
GetVendorUrl ==
    /\ url = ""
    /\ url' = get_vendor_url(merchant)
    /\ UNCHANGED <<parse_vars, page_vars, merchant>>

NextUrl == GetVendorUrl

SpecUrl == UrlInit /\ [][NextUrl]_vars

(***************************************************************************)
(* The script of the generated page                                        *)
(***************************************************************************)
\* data-id of the i-th item that generate_html writes (i counted from 0),
\* which is also the property key that the number i turns into.
DataId(i) == ToString(i)

\* What data-amount and data-next-date of an item may be.
ItemData == {[amount |-> 999, nextDate |-> 2], [amount |-> 1500, nextDate |-> 1]}

\* The items as the generated HTML has them: in the order of their data-id,
\* without the class done, the checkbox not checked.
FreshItems(data) ==
    [i \in 1..Len(data) |->
        [dataId |-> DataId(i - 1), done |-> FALSE, checked |-> FALSE,
         amount |-> data[i].amount, nextDate |-> data[i].nextDate]]

\* The data attributes of the document, read off its items.
DataOf(its) ==
    [i \in 1..Len(its) |->
        LET it == CHOOSE x \in {its[k] : k \in 1..Len(its)} : x.dataId = DataId(i - 1)
        IN  [amount |-> it.amount, nextDate |-> it.nextDate]]

\* JSON.stringify of an object with boolean values: its entries, the
\* integer keys in ascending order.
RECURSIVE Entries(_, _)
Entries(obj, n) ==
    IF n = 0 THEN <<>>
    ELSE LET rest == Entries(obj, n - 1)
             k == DataId(n - 1)
         IN  IF k \in DOMAIN obj THEN Append(rest, <<k, obj[k]>>) ELSE rest

JSONstringify(obj) == Entries(obj, NumItems)

\* JSON.parse of such a text: the object.
JSONparse(text) ==
    [k \in {text[i][1] : i \in 1..Len(text)} |->
        LET last == CHOOSE i \in 1..Len(text) :
                        text[i][1] = k /\ \A j \in 1..Len(text) : text[j][1] = k => j <= i
        IN  text[last][2]]

\* JSON.parse(localStorage.getItem('completed') || '{}')
Completed(storage) ==
    IF "completed" \in DOMAIN storage THEN JSONparse(storage["completed"]) ELSE JSONparse(<<>>)

\* localStorage.setItem(key, text)
SetItem(storage, key, text) ==
    [k \in DOMAIN storage \cup {key} |-> IF k = key THEN text ELSE storage[k]]

\* The comparison function of sortItems.
Compare(a, b, sortBy) ==
    CASE sortBy = "status" ->
            IF a.done = b.done THEN 0 ELSE IF a.done THEN 1 ELSE 0 - 1
      [] sortBy = "amount-high" -> b.amount - a.amount
      [] sortBy = "amount-low" -> a.amount - b.amount
      [] sortBy = "date-soon" -> a.nextDate - b.nextDate
      [] sortBy = "date-later" -> b.nextDate - a.nextDate
      [] OTHER -> 0

RECURSIVE InsertSorted(_, _, _)
InsertSorted(s, x, sortBy) ==
    IF Len(s) = 0 THEN <<x>>
    ELSE IF Compare(s[Len(s)], x, sortBy) <= 0 THEN Append(s, x)
    ELSE Append(InsertSorted(SubSeq(s, 1, Len(s) - 1), x, sortBy), s[Len(s)])

\* sortItems(): items.sort(...), a stable sort, and the items appended to
\* the list again in the sorted order.
RECURSIVE sortItems(_, _)
sortItems(its, sortBy) ==
    IF Len(its) = 0 THEN <<>>
    ELSE InsertSorted(sortItems(SubSeq(its, 1, Len(its) - 1), sortBy), its[Len(its)], sortBy)

\* updateProgress(): document.querySelectorAll('.item.done').length
DoneCount(its) == Cardinality({i \in 1..Len(its) : its[i].done})

\* A slip of LoadSaved: `checkbox.checked = true` left out.
LoadSavedUnchecked(its, saved) ==
    [i \in 1..Len(its) |->
        IF its[i].dataId \in DOMAIN saved /\ saved[its[i].dataId]
        THEN [its[i] EXCEPT !.done = TRUE]
        ELSE its[i]]

\* `Object.keys(saved).forEach(...)`: every item whose saved entry is true
\* gets the class done and its checkbox checked.
LoadSaved(its, saved) ==
    [i \in 1..Len(its) |->
        IF its[i].dataId \in DOMAIN saved /\ saved[its[i].dataId]
        THEN [its[i] EXCEPT !.done = TRUE, !.checked = TRUE]
        ELSE its[i]]

\* The items once the script at the end of the page has run.
Loaded(data, storage) ==
    sortItems(LoadSaved(FreshItems(data), Completed(storage)), "status")

\* The page is opened for the first time: nothing is stored yet.
PageInit ==
    /\ ParseIdle
    /\ UrlIdle
    /\ localStorage = <<>>
    /\ \E data \in [1..NumItems -> ItemData] :
          /\ items = Loaded(data, localStorage)
          /\ done_count = DoneCount(Loaded(data, localStorage))
    /\ sort_select = "status"
    /\ last_event = "load"

\* The page is loaded again: the document as generated, then its script.
Reload ==
    /\ items' = Loaded(DataOf(items), localStorage)
    /\ sort_select' = "status"
    /\ done_count' = DoneCount(items')
    /\ last_event' = "load"
    /\ UNCHANGED <<parse_vars, url_vars, localStorage>>

\* The user clicks the checkbox of item id: the browser flips it and calls
\* toggleDone(id).
toggleDone(id) ==
    LET flipped == [i \in 1..Len(items) |->
                       IF items[i].dataId = DataId(id)
                       THEN [items[i] EXCEPT !.checked = ~@, !.done = ~@]
                       ELSE items[i]]
        checkbox == CHOOSE x \in {flipped[k] : k \in 1..Len(flipped)} : x.dataId = DataId(id)
        completed == Completed(localStorage)
        updated == [k \in DOMAIN completed \cup {DataId(id)} |->
                       IF k = DataId(id) THEN checkbox.checked ELSE completed[k]]
    IN  /\ localStorage' = SetItem(localStorage, "completed", JSONstringify(updated))
        /\ items' = sortItems(flipped, sort_select)
        /\ done_count' = DoneCount(items')
        /\ last_event' = "toggle"
        /\ UNCHANGED <<parse_vars, url_vars, sort_select>>

\* The user picks a sort order: onchange="sortItems()".
ChangeSort(sortBy) ==
    /\ sort_select # sortBy
    /\ sort_select' = sortBy
    /\ items' = sortItems(items, sortBy)
    /\ last_event' = "sort"
    /\ UNCHANGED <<parse_vars, url_vars, localStorage, done_count>>

SortOptions == {"status", "amount-high", "amount-low", "date-soon", "date-later"}

NextPage ==
    \/ Reload
    \/ \E id \in 0..(NumItems - 1) : toggleDone(id)
    \/ \E sortBy \in SortOptions : ChangeSort(sortBy)

SpecPage == PageInit /\ [][NextPage]_vars

(***************************************************************************)
(* What the input says, read off the rows themselves                       *)
(***************************************************************************)
\* The row has a description, a date that parses and an amount (the first
\* non-empty of CAD$ and USD$) that parses.
FullyParsed(row) ==
    LET a == AmountText(row)
    IN  /\ ~DescIsNone(row)
        /\ a.ok
        /\ float(a.text).ok

\* The transaction record of a fully parsed row.
RecordOf(row) ==
    [merchant |-> Strip(row.desc),
     date |-> strptime(row.date).value,
     amount |-> float(AmountText(row).text).value]

\* What each input row says: whether it has a description and which (the
\* text of the field, stripped), whether it is left out as a non-subscription
\* entry, whether it has a date that parses and a non-empty amount, whether
\* it is fully parsed, and its transaction record if it is.
RowFacts ==
    [row \in Rows \cup OrderRows |->
        [described |-> ~DescIsNone(row),
         merchant |-> IF DescIsNone(row) THEN "" ELSE Strip(row.desc),
         skipped |-> ~DescIsNone(row) /\ NonSubscription(Strip(row.desc)),
         dated |-> AmountText(row).ok /\ AmountText(row).text # "",
         parsed |-> FullyParsed(row),
         record |-> IF FullyParsed(row) THEN RecordOf(row)
                    ELSE [merchant |-> "", date |-> 0, amount |-> 0]]]

\* The transaction records of merchant m among the rows rs, in input order.
RECURSIVE Records(_, _)
Records(rs, m) ==
    IF Len(rs) = 0 THEN <<>>
    ELSE LET rest == Records(SubSeq(rs, 1, Len(rs) - 1), m)
             facts == RowFacts[rs[Len(rs)]]
         IN  IF facts.described /\ facts.merchant = m /\ ~facts.skipped /\ facts.parsed
             THEN Append(rest, facts.record)
             ELSE rest

\* The merchants that have a row among rs.
MerchantsOf(rs) ==
    {RowFacts[rs[i]].merchant : i \in {j \in 1..Len(rs) : RowFacts[rs[j]].described}}

Range(s) == {s[i] : i \in 1..Len(s)}

NegativeRecords(rs, m) ==
    LET recs == Records(rs, m) IN {i \in 1..Len(recs) : recs[i].amount < 0}

Returned == pc = "done"

Summaries == Range(recurring)

(***************************************************************************)
(* Claims                                                                  *)
(***************************************************************************)
\* C1: a row whose date or amount fails to parse is discarded as a whole: a
\* merchant's group holds exactly the dates, amounts and charges of its
\* fully parsed rows, and the count of a summary is the number of those rows.
C1_MalformedRowDiscarded ==
    /\ \A i \in 1..Len(merchant_data) :
          LET e == merchant_data[i]
              recs == Records(rows, e.merchant)
          IN  /\ e.dates = [k \in 1..Len(recs) |-> recs[k].date]
              /\ e.amounts = [k \in 1..Len(recs) |-> recs[k].amount]
              /\ e.charges = [k \in 1..Len(recs) |->
                                 [date |-> recs[k].date, amount |-> recs[k].amount]]
    /\ Returned => \A s \in Summaries : s.count = Len(Records(rows, s.merchant))

\* C2: every summary returned belongs to a merchant with at least 3
\* transaction records (rows whose date and amount both parsed).
C2_AtLeastThreeRecords ==
    Returned => \A s \in Summaries : Len(Records(rows, s.merchant)) >= 3

\* C3: the predicted next billing date of every summary returned is strictly
\* later than TODAY.
C3_NextBillingAfterToday ==
    Returned => \A s \in Summaries : s.next_billing > TODAY

\* C4: parse_transactions never raises, whatever the rows contain.
C4_NeverRaises == pc # "raised"

\* C5: every summary returned has a negative-amount record, and a merchant
\* with at least 3 records none of which is negative has no summary.
C5_ChargesRequired ==
    Returned =>
        /\ \A s \in Summaries : NegativeRecords(rows, s.merchant) # {}
        /\ \A m \in MerchantsOf(rows) :
              LET recs == Records(rows, m)
              IN  (Len(recs) >= 3 /\ \A i \in 1..Len(recs) : recs[i].amount >= 0)
                      => ~\E s \in Summaries : s.merchant = m

\* C5 witness: a merchant with 3 records, none negative, and the list was
\* returned.
C5_Witness ==
    /\ Returned
    /\ \E m \in MerchantsOf(rows) :
          Len(Records(rows, m)) >= 3 /\ NegativeRecords(rows, m) = {}

\* Sum of the absolute values of the negative amounts of the records recs.
RECURSIVE SumOfCharges(_)
SumOfCharges(recs) ==
    IF Len(recs) = 0 THEN 0
    ELSE SumOfCharges(SubSeq(recs, 1, Len(recs) - 1))
           + (IF recs[Len(recs)].amount < 0 THEN 0 - recs[Len(recs)].amount ELSE 0)

\* C6: avg_amount of every summary is the sum of the absolute values of the
\* merchant's negative-amount records divided by their number.
C6_AverageOfCharges ==
    Returned => \A s \in Summaries :
        LET n == Cardinality(NegativeRecords(rows, s.merchant))
        IN  /\ n > 0
            /\ s.avg_amount.den > 0
            /\ s.avg_amount.num * n = SumOfCharges(Records(rows, s.merchant)) * s.avg_amount.den

\* C6 witness: a summary of a merchant with two charges of different amounts
\* and a record that is not a charge.
C6_Witness ==
    /\ Returned
    /\ \E s \in Summaries :
          LET recs == Records(rows, s.merchant)
          IN  /\ \E i, j \in 1..Len(recs) :
                    recs[i].amount < 0 /\ recs[j].amount < 0 /\ recs[i].amount # recs[j].amount
              /\ \E i \in 1..Len(recs) : recs[i].amount >= 0

\* Dates of the negative-amount records among recs, in input order.
RECURSIVE ChargeDates(_)
ChargeDates(recs) ==
    IF Len(recs) = 0 THEN <<>>
    ELSE LET rest == ChargeDates(SubSeq(recs, 1, Len(recs) - 1))
         IN  IF recs[Len(recs)].amount < 0 THEN Append(rest, recs[Len(recs)].date) ELSE rest

\* C8: the interval of every summary is the mean of the day differences
\* between consecutive dates, ascending, of the merchant's charges (its
\* negative-amount records) alone.
C8_IntervalOfCharges ==
    Returned => \A s \in Summaries :
        LET ds == sorted(ChargeDates(Records(rows, s.merchant)))
            span == Days(ds[1], ds[Len(ds)])
        IN  Len(ds) >= 2 => s.interval.num * (Len(ds) - 1) = span * s.interval.den

\* Index of the first row of merchant m in the input, 0 when there is none.
FirstRow(rs, m) ==
    LET S == {i \in 1..Len(rs) : RowFacts[rs[i]].described /\ RowFacts[rs[i]].merchant = m}
    IN  IF S = {} THEN 0 ELSE CHOOSE i \in S : \A j \in S : i <= j

\* Index of the first row of merchant m that has a date that parses and a
\* non-empty amount, 0 when there is none.
FirstDatedRow(rs, m) ==
    LET S == {i \in 1..Len(rs) :
                 /\ RowFacts[rs[i]].described /\ RowFacts[rs[i]].merchant = m
                 /\ RowFacts[rs[i]].dated}
    IN  IF S = {} THEN 0 ELSE CHOOSE i \in S : \A j \in S : i <= j

\* C7 as stated: the list returned is ordered by non-increasing count, and
\* summaries of equal count are in the order in which their merchants first
\* appear in the input.
C7_TiesInInputOrder ==
    Returned => \A i, j \in 1..Len(recurring) :
        i < j =>
            /\ recurring[i].count >= recurring[j].count
            /\ recurring[i].count = recurring[j].count
                  => FirstRow(rows, recurring[i].merchant) < FirstRow(rows, recurring[j].merchant)

\* C7 as amended: the list returned is ordered by non-increasing count, and
\* summaries of equal count are in the order of their merchants' first rows
\* that have a date that parses and a non-empty amount.
C7_TiesInGroupOrder ==
    Returned => \A i, j \in 1..Len(recurring) :
        i < j =>
            /\ recurring[i].count >= recurring[j].count
            /\ recurring[i].count = recurring[j].count
                  => FirstDatedRow(rows, recurring[i].merchant)
                       < FirstDatedRow(rows, recurring[j].merchant)

\* C7 witness: two summaries of equal count were returned, and the first of
\* them belongs to the merchant that appears later in the input.
C7_Witness ==
    /\ Returned
    /\ Len(recurring) = 2
    /\ recurring[1].count = recurring[2].count
    /\ FirstRow(rows, recurring[1].merchant) > FirstRow(rows, recurring[2].merchant)

\* Two summaries of different counts were returned in the reverse of the order
\* in which they were appended.
C7_SortMoves ==
    /\ Returned
    /\ Len(recurring) = 2
    /\ recurring[1].count > recurring[2].count
    /\ Position(merchant_data, recurring[1].merchant) > Position(merchant_data, recurring[2].merchant)

\* The rules after the table, in the order the claim gives.
PatternRules ==
    << <<"CPANEL", "https://store.cpanel.net/view-invoice">>,
       <<"Audible", "https://www.audible.ca/account/payments">>,
       <<"GODADDY", "https://account.godaddy.com/billing">>,
       <<"FS *", "https://fsprg.com/account">> >>

MatchingRules(m) == {i \in 1..Len(PatternRules) : Contains(m, PatternRules[i][1])}

SearchPrefix == "https://www.google.com/search?q="

SearchSuffix == "+billing+payment+method"

\* u is the search URL of m: the prefix, m with "+" for every space, the suffix.
IsSearchUrl(u, m) ==
    /\ Len(u) = Len(SearchPrefix) + Len(m) + Len(SearchSuffix)
    /\ SubSeq(u, 1, Len(SearchPrefix)) = SearchPrefix
    /\ SubSeq(u, Len(SearchPrefix) + Len(m) + 1, Len(u)) = SearchSuffix
    /\ \A i \in 1..Len(m) :
          Char(u, Len(SearchPrefix) + i) = (IF Char(m, i) = " " THEN "+" ELSE Char(m, i))

\* C9: get_vendor_url returns the table's URL for a merchant that is a key of
\* the table; otherwise the URL of the first rule, in the order CPANEL,
\* Audible, GODADDY, 'FS *', whose pattern the merchant contains; otherwise
\* the search URL of the merchant with "+" for every space.
C9_UrlPriority ==
    url # "" =>
        IF merchant \in DOMAIN urls THEN url = urls[merchant]
        ELSE IF MatchingRules(merchant) # {}
        THEN \E i \in MatchingRules(merchant) :
                /\ \A j \in MatchingRules(merchant) : i <= j
                /\ url = PatternRules[i][2]
        ELSE IsSearchUrl(url, merchant)

\* C9 witness: a call has returned for a merchant that is no key of the
\* table and contains both the CPANEL and the Audible pattern, Audible first.
C9_Witness ==
    /\ url # ""
    /\ merchant \notin DOMAIN urls
    /\ Contains(merchant, "AudibleCPANEL")
    /\ url = "https://store.cpanel.net/view-invoice"

\* A call has returned the search URL of a merchant with a space in it.
C9_SearchReached ==
    /\ url # ""
    /\ MatchingRules(merchant) = {}
    /\ merchant \notin DOMAIN urls
    /\ Contains(merchant, " ")

\* A call has returned the table's URL.
C9_TableReached == url # "" /\ merchant \in DOMAIN urls

\* The saved entry of the key k is true.
SavedDone(k) ==
    LET saved == Completed(localStorage) IN k \in DOMAIN saved /\ saved[k]

\* The saved entry of the key k: <<FALSE>> when there is none.
SavedEntry(storage, k) ==
    LET saved == Completed(storage) IN IF k \in DOMAIN saved THEN <<TRUE, saved[k]>> ELSE <<FALSE>>

ItemOf(its, k) == CHOOSE x \in {its[i] : i \in 1..Len(its)} : x.dataId = k

\* For every item: checked iff done iff its saved entry is true.
CompletionConsistent ==
    \A i \in 1..Len(items) :
        /\ items[i].checked = items[i].done
        /\ items[i].done = SavedDone(items[i].dataId)

\* A reload leaves every item with the completion state it had.
ReloadRestores ==
    Reload => \A i \in 0..(NumItems - 1) :
        /\ ItemOf(items', DataId(i)).done = ItemOf(items, DataId(i)).done
        /\ ItemOf(items', DataId(i)).checked = ItemOf(items, DataId(i)).checked

\* Toggling an item leaves the saved entry of every other item as it was.
ToggleIsLocal ==
    \A id \in 0..(NumItems - 1) :
        toggleDone(id) => \A j \in 0..(NumItems - 1) :
            j # id => SavedEntry(localStorage', DataId(j)) = SavedEntry(localStorage, DataId(j))

\* C10: after any toggles and reloads, every item's checkbox is checked iff
\* the item has the class done iff the saved map is true at its index; a
\* reload restores the completion state, and a toggle changes no other
\* item's saved entry.
C10_CompletionPersists ==
    /\ []CompletionConsistent
    /\ [][ReloadRestores /\ ToggleIsLocal]_vars

\* C10 witness: the page has just been loaded again; an item is done whose
\* entry is saved as true, another has an entry saved as false and a third
\* has none, and the done item is last in the list.
C10_Witness ==
    /\ last_event = "load"
    /\ \E i \in 1..Len(items) : items[i].done /\ items[i].checked
    /\ \E j \in 0..(NumItems - 1) : SavedEntry(localStorage, DataId(j)) = <<TRUE, FALSE>>
    /\ \E j \in 0..(NumItems - 1) : SavedEntry(localStorage, DataId(j)) = <<FALSE>>
    /\ sort_select = "status"
    /\ items[Len(items)].done /\ ~items[1].done

\* The class the page should give a next billing date: by the time from TODAY
\* to it, in ticks.
ClassOf(next) ==
    IF next - TODAY < 7 * TicksPerDay THEN "urgent"
    ELSE IF next - TODAY < 14 * TicksPerDay THEN "soon"
    ELSE "ok"

Written == pc = "written"

\* C11: every rendered summary gets exactly one urgency class, decided by the
\* whole number of days from TODAY (the TODAY of the prediction) to its next
\* billing date: 'urgent' under 7, 'soon' from 7 to under 14, 'ok' from 14 on.
C11_UrgencyByWholeDays ==
    Written =>
        /\ Len(html) = Len(recurring)
        /\ \A k \in 1..Len(html) :
              /\ html[k].merchant = recurring[k].merchant
              /\ html[k].urgency_class \in {"urgent", "soon", "ok"}
              /\ html[k].urgency_class = ClassOf(recurring[k].next_billing)

\* A page with an item due in 13 days and a part of a day: 'soon', where the
\* time rounded up to whole days would give 'ok'.
C11_Witness ==
    /\ Written
    /\ \E k \in 1..Len(html) :
          /\ html[k].urgency_class = "soon"
          /\ recurring[k].next_billing - TODAY > 13 * TicksPerDay
          /\ recurring[k].next_billing - TODAY < 14 * TicksPerDay

\* Pages with an item of each of the other classes at its bound are reached:
\* due in exactly 7 days ('soon'), in exactly 14 days ('ok'), and today.
C11_SoonAtSeven ==
    /\ Written
    /\ \E k \in 1..Len(html) :
          /\ html[k].urgency_class = "soon"
          /\ recurring[k].next_billing - TODAY = 7 * TicksPerDay

C11_OkAtFourteen ==
    /\ Written
    /\ \E k \in 1..Len(html) :
          /\ html[k].urgency_class = "ok"
          /\ recurring[k].next_billing - TODAY = 14 * TicksPerDay

C11_UrgentToday ==
    /\ Written
    /\ \E k \in 1..Len(html) :
          /\ html[k].urgency_class = "urgent"
          /\ recurring[k].next_billing = TODAY

InLoop == pc \in {"while", "body"}

\* C12: parse_transactions terminates: for each qualifying merchant the loop
\* that adds the average interval to the next billing date is left after
\* finitely many iterations, whatever the interval and the latest date, and
\* the run goes on to the summary and from there to writing the page.
C12_LoopEnds == InLoop ~> (pc = "filter")

\* The loop is left whenever the interval adds at least a tick.
C12_LoopEndsIfPositive ==
    (InLoop /\ timedelta(avg_interval.num, avg_interval.den) > 0) ~> (pc = "filter")

\* The loop is in its body with nothing to add: the merchant's dates all
\* fall on one day, earlier than TODAY.
C12_LoopStuck ==
    /\ pc = "body"
    /\ next_billing < TODAY
    /\ timedelta(avg_interval.num, avg_interval.den) = 0

====
